---- MODULE Spec2Model ----
(***************************************************************************)
(* Model of undump.py: the metadata-driven reorganisation of an archive    *)
(* of files into an output tree.                                           *)
(*                                                                         *)
(* Text is modelled as a sequence of characters.  An ASCII character is    *)
(* the one-character string holding it; a non-ASCII character is a named   *)
(* token ("e_acute" is U+00E9, "comb_acute" U+0301, "eszett" U+00DF,       *)
(* "fw_dot" U+FF0E FULLWIDTH FULL STOP).  A path is the sequence of its    *)
(* components, as pathlib's Path.parts gives it; an absolute path starts   *)
(* with the component <<"/">>.                                             *)
(***************************************************************************)
EXTENDS Integers, Sequences, FiniteSets, TLC

VARIABLES
    \* ---- slugify, applied to a text and again to its own result
    raw, max_len, slug1, slug2, spc,
    \* ---- the inputs of main: the regular files under archive_dir, the
    \* document of every identifier under metadata_dir, the options
    archive, docs, folder_mask, file_mask, limit,
    \* ---- main: the selected files, the position of its loop, the step
    files, idx, pc,
    \* ---- copy_with_structure and ensure_unique_path: the item in hand
    cur, candidate, counter,
    \* ---- the file system below the working directory: the regular files
    \* (path -> the source copied there) and the directories
    tree_files, tree_dirs,
    \* ---- what happened: one record per item main is through with, and the
    \* records logged at WARNING or above
    done, log

slugVars == <<raw, max_len, slug1, slug2, spc>>
inputVars == <<archive, docs, folder_mask, file_mask, limit>>
treeVars == <<tree_files, tree_dirs>>
batchVars == <<inputVars, files, idx, pc, cur, candidate, counter, treeVars, done, log>>
vars == <<slugVars, batchVars>>

-----------------------------------------------------------------------------
(* Bounds of the model *)

\* longest text drawn (character by character) as slugify's input
MaxLen == 3
\* largest max_len passed to slugify in the slugify specification
MaxM == 8
\* most regular files in the archive
MaxFiles == 3
\* ensure_unique_path's counter is followed up to this value
MaxCounter == 6
\* most paths taken already when ensure_unique_path is checked on its own
MaxTaken == 3

(* Program constants *)

\* MAX_SEGMENT_LEN
MAX_SEGMENT_LEN == 30

-----------------------------------------------------------------------------
(* Characters *)

Letters ==
    {"a","b","c","d","e","f","g","h","i","j","k","l","m","n","o","p","q","r",
     "s","t","u","v","w","x","y","z","A","B","C","D","E","F","G","H","I","J",
     "K","L","M","N","O","P","Q","R","S","T","U","V","W","X","Y","Z"}
Digits == {"0","1","2","3","4","5","6","7","8","9"}
NonAscii == {"e_acute", "comb_acute", "eszett", "fw_dot"}

\* the characters of the class [A-Za-z0-9._-]
SafeChars == Letters \cup Digits \cup {".", "_", "-"}
\* the characters of "._-"
Punct == {".", "_", "-"}
\* the characters str.strip() removes
Whitespace == {" "}

Min(a, b) == IF a <= b THEN a ELSE b
Max(a, b) == IF a >= b THEN a ELSE b

-----------------------------------------------------------------------------
(* str helpers *)

\* s.lstrip(chars)
RECURSIVE LStrip(_, _)
LStrip(s, chars) ==
    IF s # <<>> /\ Head(s) \in chars THEN LStrip(Tail(s), chars) ELSE s

\* s.rstrip(chars)
RECURSIVE RStrip(_, _)
RStrip(s, chars) ==
    IF s # <<>> /\ s[Len(s)] \in chars
    THEN RStrip(SubSeq(s, 1, Len(s) - 1), chars)
    ELSE s

\* s.strip(chars)
Strip(s, chars) == RStrip(LStrip(s, chars), chars)

\* s[:n], for n of either sign
Slice(s, n) ==
    IF n >= 0
    THEN SubSeq(s, 1, Min(n, Len(s)))
    ELSE SubSeq(s, 1, Max(Len(s) + n, 0))

\* the compatibility decomposition of one character
NfkdChar(c) ==
    CASE c = "e_acute" -> <<"e", "comb_acute">>
      [] c = "fw_dot"  -> <<".">>
      [] OTHER         -> <<c>>

\* unicodedata.normalize("NFKD", s)
RECURSIVE Nfkd(_)
Nfkd(s) == IF s = <<>> THEN <<>> ELSE NfkdChar(Head(s)) \o Nfkd(Tail(s))

IsAscii(c) == c \notin NonAscii

\* s.encode("ascii", "ignore").decode("ascii")
AsciiIgnore(s) == SelectSeq(s, IsAscii)

\* re.sub(r"[^A-Za-z0-9._-]+", "_", s): every maximal run of characters
\* outside the class becomes one "_"
RECURSIVE ReSubUnsafe(_)
ReSubUnsafe(s) ==
    IF s = <<>> THEN <<>>
    ELSE IF Head(s) \in SafeChars THEN <<Head(s)>> \o ReSubUnsafe(Tail(s))
    ELSE <<"_">> \o ReSubUnsafe(LStrip(s, {c \in {s[i] : i \in 1..Len(s)} : c \notin SafeChars}))

Unnamed == <<"u","n","n","a","m","e","d">>

\* step 4 of slugify without the second rstrip
SlugTruncateNoRstrip(safe, m) == Slice(safe, m)
\* step 4 of slugify: safe[:max_len].rstrip("._-")
SlugTruncate(safe, m) == RStrip(Slice(safe, m), Punct)

\* step 3 of slugify with rstrip in place of strip
SlugStripRightOnly(safe) == RStrip(safe, Punct)
\* step 3 of slugify: safe.strip("._-")
SlugStrip(safe) == Strip(safe, Punct)

\* slugify(raw, max_len)
Slugify(text, m) ==
    LET ascii_str == AsciiIgnore(Nfkd(text))
        safe1 == ReSubUnsafe(ascii_str)
        safe2 == SlugStrip(safe1)
        safe3 == SlugTruncate(safe2, m)
    IN IF safe3 = <<>> THEN Unnamed ELSE safe3

-----------------------------------------------------------------------------
(* More str helpers *)

\* the index of the first sep in s, 0 when there is none
RECURSIVE Find(_, _)
Find(s, sep) ==
    IF s = <<>> THEN 0
    ELSE IF Head(s) = sep THEN 1
    ELSE LET r == Find(Tail(s), sep) IN IF r = 0 THEN 0 ELSE r + 1

\* s.rfind(sep), 1-based; 0 when there is none
RECURSIVE RFind(_, _)
RFind(s, sep) ==
    IF s = <<>> THEN 0
    ELSE IF s[Len(s)] = sep THEN Len(s)
    ELSE RFind(SubSeq(s, 1, Len(s) - 1), sep)

\* s.split(sep)
RECURSIVE Split(_, _)
Split(s, sep) ==
    LET i == Find(s, sep)
    IN IF i = 0 THEN <<s>>
       ELSE <<SubSeq(s, 1, i - 1)>> \o Split(SubSeq(s, i + 1, Len(s)), sep)

\* sep.join(parts)
RECURSIVE JoinText(_, _)
JoinText(parts, sep) ==
    IF parts = <<>> THEN <<>>
    ELSE IF Len(parts) = 1 THEN parts[1]
    ELSE parts[1] \o <<sep>> \o JoinText(Tail(parts), sep)

\* str(n) for n >= 0
RECURSIVE Str(_)
Str(n) ==
    LET digit == <<"0","1","2","3","4","5","6","7","8","9">>[(n % 10) + 1]
    IN IF n < 10 THEN <<digit>> ELSE Str(n \div 10) \o <<digit>>

\* the characters the model orders, in ASCII order
AsciiOrder ==
    <<"-", ".", "/", "0","1","2","3","4","5","6","7","8","9",
      "A","B","C","D","E","F","G","H","I","J","K","L","M","N","O","P","Q","R",
      "S","T","U","V","W","X","Y","Z", "_",
      "a","b","c","d","e","f","g","h","i","j","k","l","m","n","o","p","q","r",
      "s","t","u","v","w","x","y","z">>
Ord(c) == CHOOSE i \in 1..Len(AsciiOrder) : AsciiOrder[i] = c

\* s < t for two str (code point by code point, a prefix first)
RECURSIVE TextLess(_, _)
TextLess(s, t) ==
    IF t = <<>> THEN FALSE
    ELSE IF s = <<>> THEN TRUE
    ELSE IF Head(s) = Head(t) THEN TextLess(Tail(s), Tail(t))
    ELSE Ord(Head(s)) < Ord(Head(t))

-----------------------------------------------------------------------------
(* pathlib (PurePosixPath): a path is the sequence of its parts *)

Root == <<"/">>
\* POSIX keeps a root of exactly two slashes apart
Root2 == <<"/", "/">>
Roots == {Root, Root2}

\* the root of Path(text), <<>> when text is relative
RootOf(text) ==
    IF text = <<>> \/ text[1] # "/" THEN <<>>
    ELSE IF Len(text) >= 2 /\ text[2] = "/" /\ (Len(text) = 2 \/ text[3] # "/")
    THEN Root2
    ELSE Root

\* the parts of Path(text): empty and "." components are dropped, ".." kept
PathParts(text) ==
    LET pieces == SelectSeq(Split(text, "/"), LAMBDA c : c # <<>> /\ c # <<".">>)
    IN IF RootOf(text) # <<>> THEN <<RootOf(text)>> \o pieces ELSE pieces

IsAbsolute(path) == path # <<>> /\ path[1] \in Roots

\* base / text: an absolute right operand replaces the left one
JoinPath(base, text) ==
    LET parts == PathParts(text)
    IN IF IsAbsolute(parts) THEN parts ELSE base \o parts

\* path.as_posix()
AsPosix(path) ==
    IF IsAbsolute(path)
    THEN path[1] \o JoinText(Tail(path), "/")
    ELSE JoinText(path, "/")

\* path.name
Name(path) ==
    IF path = <<>> \/ (Len(path) = 1 /\ IsAbsolute(path)) THEN <<>> ELSE path[Len(path)]

\* path.parent
Parent(path) ==
    IF path = <<>> \/ (Len(path) = 1 /\ IsAbsolute(path))
    THEN path
    ELSE SubSeq(path, 1, Len(path) - 1)

\* the suffix of a name: from its last dot, unless that dot starts or ends it
SuffixOf(name) ==
    LET i == RFind(name, ".")
    IN IF 1 < i /\ i < Len(name) THEN SubSeq(name, i, Len(name)) ELSE <<>>

\* the stem of a name
StemOf(name) ==
    LET i == RFind(name, ".")
    IN IF 1 < i /\ i < Len(name) THEN SubSeq(name, 1, i - 1) ELSE name

\* path.relative_to(root): the parts after root, or ValueError
RelativeTo(path, root) ==
    IF Len(path) >= Len(root) /\ SubSeq(path, 1, Len(root)) = root
    THEN [ok |-> TRUE, val |-> SubSeq(path, Len(root) + 1, Len(path))]
    ELSE [ok |-> FALSE, val |-> <<>>]

\* path.with_stem(stem) = path.with_name(stem + path.suffix); ValueError when
\* path has an empty name
WithStem(path, stem) ==
    IF Name(path) = <<>>
    THEN [ok |-> FALSE, val |-> path]
    ELSE [ok |-> TRUE, val |-> Append(Parent(path), stem \o SuffixOf(Name(path)))]

-----------------------------------------------------------------------------
(* Metadata *)

\* the record parse_metadata returns when the query has no row
DefaultRecord(uuid) ==
    [ year |-> <<"1","9","7","0">>,
      month |-> <<"0","1">>,
      day |-> <<"0","1">>,
      date |-> <<"1","9","7","0","-","0","1","-","0","1">>,
      title |-> <<"U","n","t","i","t","l","e","d">>,
      subtitle |-> <<>>,
      type |-> <<"U","N","K","N","O","W","N">>,
      eli |-> <<>>,
      celex_identifier |-> <<>>,
      default_identifier |-> uuid ]

\* the record parse_metadata builds from the first row: the date split at
\* "-" into year, month, day (all empty unless there are exactly three
\* parts), the title slugified, the other values as they are
RowRecord(uuid, row) ==
    LET parts == Split(row.date, "-")
        wellFormed == Len(parts) = 3
    IN [ year |-> IF wellFormed THEN parts[1] ELSE <<>>,
         month |-> IF wellFormed THEN parts[2] ELSE <<>>,
         day |-> IF wellFormed THEN parts[3] ELSE <<>>,
         date |-> row.date,
         title |-> Slugify(row.title, MAX_SEGMENT_LEN),
         subtitle |-> row.subtitle,
         type |-> row.type,
         eli |-> row.eli,
         celex_identifier |-> row.celex_identifier,
         default_identifier |-> uuid ]

\* parse_metadata raising on an empty result instead of falling back
ParseMetadataRaisesOnNoRows(uuid, doc) ==
    IF ~doc.parses \/ doc.rows = <<>> THEN [ok |-> FALSE, val |-> DefaultRecord(uuid)]
    ELSE [ok |-> TRUE, val |-> RowRecord(uuid, doc.rows[1])]
\* parse_metadata(rdf_path, language), the document at rdf_path given as
\* [parses, rows]: whether g.parse accepts it, and the rows the query selects
\* for the language.  g.parse raising is ok = FALSE.
ParseMetadata(uuid, doc) ==
    IF ~doc.parses THEN [ok |-> FALSE, val |-> DefaultRecord(uuid)]
    ELSE IF doc.rows = <<>> THEN [ok |-> TRUE, val |-> DefaultRecord(uuid)]
    ELSE [ok |-> TRUE, val |-> RowRecord(uuid, doc.rows[1])]

-----------------------------------------------------------------------------
(* Templates.  A mask is a sequence of tokens: [kind |-> "lit", text],       *)
(* [kind |-> "field", text] for {text}, and [kind |-> "brace"] for a single *)
(* "{", which str.format_map rejects with ValueError.                       *)

Lit(text) == [kind |-> "lit", text |-> text]
Field(text) == [kind |-> "field", text |-> text]
Brace == [kind |-> "brace", text |-> <<"{">>]

\* the text of a field name as the key of the metadata dict
KeyOf(text) ==
    CASE text = <<"y","e","a","r">> -> "year"
      [] text = <<"m","o","n","t","h">> -> "month"
      [] text = <<"d","a","y">> -> "day"
      [] text = <<"d","a","t","e">> -> "date"
      [] text = <<"t","i","t","l","e">> -> "title"
      [] text = <<"s","u","b","t","i","t","l","e">> -> "subtitle"
      [] text = <<"t","y","p","e">> -> "type"
      [] text = <<"e","l","i">> -> "eli"
      [] text = <<"c","e","l","e","x","_","i","d","e","n","t","i","f","i","e","r">>
            -> "celex_identifier"
      [] text = <<"d","e","f","a","u","l","t","_","i","d","e","n","t","i","f","i","e","r">>
            -> "default_identifier"
      [] OTHER -> "missing"

\* _SafeDict.__missing__(key)
Missing(text) == <<"[">> \o text \o <<"N","o","t","F","o","u","n","d","]">>

\* render_mask(mask, values): mask.format_map(_SafeDict(values))
RECURSIVE RenderMask(_, _)
RenderMask(mask, values) ==
    IF mask = <<>> THEN [ok |-> TRUE, val |-> <<>>]
    ELSE LET tok == Head(mask)
             rest == RenderMask(Tail(mask), values)
             here == IF tok.kind = "lit" THEN tok.text
                     ELSE IF KeyOf(tok.text) \in DOMAIN values
                          THEN values[KeyOf(tok.text)]
                          ELSE Missing(tok.text)
         IN IF tok.kind = "brace" \/ ~rest.ok
            THEN [ok |-> FALSE, val |-> <<>>]
            ELSE [ok |-> TRUE, val |-> here \o rest.val]

\* the folder loop of build_destination: dest_dir /= segment, part by part
RECURSIVE JoinSegments(_, _)
JoinSegments(dest_dir, segments) ==
    IF segments = <<>> THEN dest_dir
    ELSE JoinSegments(JoinPath(dest_dir, Head(segments)), Tail(segments))

\* the file stem build_destination uses: raw_stem, as rendered
FileStem(raw_stem) == raw_stem

\* build_destination(output_root, metadata, folder_mask, file_mask, src_path);
\* ok = FALSE when render_mask raises
BuildDestination(output_root, metadata, folderMask, fileMask, src_path) ==
    LET folder == RenderMask(folderMask, metadata)
        file == RenderMask(fileMask, metadata)
        raw_sub == Strip(folder.val, {"/", "\\"})
        dest_dir == IF raw_sub # <<>>
                    THEN JoinSegments(output_root, PathParts(raw_sub))
                    ELSE output_root
        stripped == Strip(file.val, Whitespace)
        raw_stem == IF stripped # <<>> THEN stripped
                    ELSE IF metadata.default_identifier # <<>>
                         THEN metadata.default_identifier
                         ELSE StemOf(Name(src_path))
        file_stem == FileStem(raw_stem)
    IN IF ~folder.ok \/ ~file.ok
       THEN [ok |-> FALSE, val |-> <<>>, dir |-> <<>>, stem |-> <<>>]
       ELSE [ok |-> TRUE,
             val |-> JoinPath(dest_dir, file_stem \o SuffixOf(Name(src_path))),
             dir |-> dest_dir,
             stem |-> file_stem]

-----------------------------------------------------------------------------
(* The file system: paths are resolved component by component, ".." going  *)
(* to the parent; the working directory, its ancestors and the root are    *)
(* directories; there are no symbolic links.                               *)

DotDot == <<".", ".">>

AllDotDot(path) == \A i \in 1..Len(path) : path[i] = DotDot

\* the directory one step up from a resolved path
Up(path) ==
    IF AllDotDot(path) THEN Append(path, DotDot)
    ELSE IF Len(path) = 1 /\ IsAbsolute(path) THEN path
    ELSE Parent(path)

RECURSIVE ResolveFrom(_, _)
ResolveFrom(at, parts) ==
    IF parts = <<>> THEN at
    ELSE LET c == Head(parts)
         IN ResolveFrom(IF c \in Roots THEN <<Root>>
                        ELSE IF c = DotDot THEN Up(at)
                        ELSE Append(at, c),
                        Tail(parts))

\* where a path leads, from the working directory
Resolve(path) == ResolveFrom(<<>>, path)

\* a resolved path is a directory
IsDirAt(at, dirs) ==
    at \in dirs \/ AllDotDot(at) \/ (Len(at) = 1 /\ IsAbsolute(at))

\* path.exists(): every directory on the way is one, and something is there
Exists(path, fileSet, dirs) ==
    /\ \A i \in 1..(Len(path) - 1) : IsDirAt(Resolve(SubSeq(path, 1, i)), dirs)
    /\ Resolve(path) \in fileSet \/ IsDirAt(Resolve(path), dirs)

\* path.mkdir(parents=True, exist_ok=True): every directory on the way is
\* made; FileExistsError / NotADirectoryError (ok = FALSE) when a regular
\* file is in the way
MkdirParents(path, fileSet, dirs) ==
    LET onTheWay == {Resolve(SubSeq(path, 1, i)) : i \in 1..Len(path)}
    IN IF onTheWay \cap fileSet # {}
       THEN [ok |-> FALSE, val |-> dirs]
       ELSE [ok |-> TRUE,
             val |-> dirs \cup {d \in onTheWay : ~IsDirAt(d, {})}]

\* shutil.copy2(src, dst): the path written is dst, or dst / src.name when
\* dst is a directory; IsADirectoryError (ok = FALSE) when that is one too
Copy2(src, dst, treeFiles, dirs) ==
    LET at == Resolve(dst)
        target == IF IsDirAt(at, dirs) THEN Append(at, Name(src)) ELSE at
    IN IF IsDirAt(target, dirs)
       THEN [ok |-> FALSE, val |-> treeFiles, target |-> target]
       ELSE [ok |-> TRUE,
             val |-> (target :> src) @@ treeFiles,
             target |-> target]

-----------------------------------------------------------------------------
(* The inputs of a run *)

ArchiveRoot == << <<"a","r","c">> >>
OutputRoot == << <<"o","u","t">> >>

UuidDotted == <<"u",".","1">>
UuidPlain == <<"u">>
Uuids == {UuidDotted, UuidPlain}

\* ARCHIVE_DIR/<UUID>/<FILETYPE>/<original_filename>.<ext>
ArchiveFile(uuid, filetype, name) == ArchiveRoot \o <<uuid, filetype, name>>

ArchiveUniverse ==
    { ArchiveFile(UuidDotted, <<"h">>, <<"d">>),
      ArchiveFile(UuidDotted, <<"p">>, <<"d">>),
      ArchiveFile(UuidDotted, <<"x">>, <<"d">>),
      ArchiveFile(UuidPlain, <<"h">>, <<"d">>),
      ArchiveFile(UuidPlain, <<"p">>, <<"d",".","t">>),
      ArchiveFile(UuidPlain, <<"x">>, <<"d",".","t">>) }

Archives == {A \in SUBSET ArchiveUniverse : Cardinality(A) <= MaxFiles}

\* the document METADATA_DIR/<UUID>/tree_non_inferred.rdf: whether it is a
\* file, whether g.parse accepts it, the rows the query selects
Absent == [present |-> FALSE, parses |-> FALSE, rows |-> <<>>]
Malformed == [present |-> TRUE, parses |-> FALSE, rows |-> <<>>]
NoRows == [present |-> TRUE, parses |-> TRUE, rows |-> <<>>]
WithRows(rows) == [present |-> TRUE, parses |-> TRUE, rows |-> rows]

RowA ==
    [ date |-> <<"2","0","2","0","-","0","5","-","1","7">>,
      title |-> <<"E","x"," ","T">>,
      subtitle |-> <<>>,
      type |-> <<"t">>,
      eli |-> <<"e","/","r">>,
      celex_identifier |-> <<"3">> ]
RowB ==
    [ date |-> <<"2","0","2","0","-","0","5">>,
      title |-> <<"e_acute",".">>,
      subtitle |-> <<".",".","/","s">>,
      type |-> <<"t">>,
      eli |-> <<"/","e">>,
      celex_identifier |-> <<>> ]

DocChoices ==
    { d \in [Uuids -> {Absent, Malformed, NoRows, WithRows(<<RowA>>), WithRows(<<RowB, RowA>>)}] :
        /\ d[UuidDotted] # WithRows(<<RowB, RowA>>)
        /\ d[UuidPlain] # Malformed }

T_year == <<"y","e","a","r">>
T_month == <<"m","o","n","t","h">>
T_title == <<"t","i","t","l","e">>
T_subtitle == <<"s","u","b","t","i","t","l","e">>
T_eli == <<"e","l","i">>
T_type == <<"t","y","p","e">>
T_nokey == <<"n","o","k","e","y">>

\* <<folder mask, file mask>>: the defaults "{year}/{month}" and "{title}";
\* "" and "{eli}"; "{subtitle}" and "{nokey}"; "{type}" and "{"
MaskChoices ==
    { << <<Field(T_year), Lit(<<"/">>), Field(T_month)>>, <<Field(T_title)>> >>,
      << <<>>, <<Field(T_eli)>> >>,
      << <<Field(T_subtitle)>>, <<Field(T_nokey)>> >>,
      << <<Field(T_type)>>, <<Brace>> >> }

\* --limit: <<>> when not given, <<n>> when given as n
LimitChoices == {<<>>} \cup {<<n>> : n \in 0..(MaxFiles + 1)}

\* what an earlier run left in the output tree
LeftBehind == << <<"o","l","d">> >>
OutDir1970 == OutputRoot \o << <<"1","9","7","0">> >>
OutDir197001 == OutDir1970 \o << <<"0","1">> >>
TreeChoices ==
    { [fileMap |-> <<>>, dirSet |-> {}],
      [fileMap |-> (OutDir197001 \o << <<"U","n","t","i","t","l","e","d">> >>) :> LeftBehind,
       dirSet |-> {OutputRoot, OutDir1970, OutDir197001}],
      [fileMap |-> OutDir1970 :> LeftBehind, dirSet |-> {OutputRoot}] }

-----------------------------------------------------------------------------
(* main *)

\* p < q as pathlib orders paths: part by part
RECURSIVE PartsLess(_, _)
PartsLess(p, q) ==
    IF q = <<>> THEN FALSE
    ELSE IF p = <<>> THEN TRUE
    ELSE IF Head(p) = Head(q) THEN PartsLess(Tail(p), Tail(q))
    ELSE TextLess(Head(p), Head(q))
\* sorted(...) without the key
PathBeforeByParts(p, q) == PartsLess(p, q)
\* p.as_posix() < q.as_posix(), the order sorted(..., key=as_posix) sorts by
PathBefore(p, q) == TextLess(AsPosix(p), AsPosix(q))

RECURSIVE InsertSorted(_, _)
InsertSorted(x, sorted) ==
    IF sorted = <<>> THEN <<x>>
    ELSE IF PathBefore(x, Head(sorted)) THEN <<x>> \o sorted
    ELSE <<Head(sorted)>> \o InsertSorted(x, Tail(sorted))

\* sorted(found, key=lambda p: p.as_posix())
RECURSIVE Sorted(_)
Sorted(found) ==
    IF found = <<>> THEN <<>>
    ELSE InsertSorted(found[Len(found)], Sorted(SubSeq(found, 1, Len(found) - 1)))

\* the orders in which rglob may yield the files of a set
RECURSIVE Orders(_)
Orders(S) ==
    IF S = {} THEN {<<>>}
    ELSE UNION {{<<x>> \o o : o \in Orders(S \ {x})} : x \in S}

\* if limit is not None and limit > 0: files = files[:limit]
ApplyLimit(sorted, lim) ==
    IF lim # <<>> /\ lim[1] > 0 THEN Slice(sorted, lim[1]) ELSE sorted

\* the test for the document left out
RdfIsFileAlways(doc) == TRUE
\* rdf_path.is_file()
RdfIsFile(doc) == doc.present

\* the exception of an item ending the run
OnExceptionAbort(i) == [pc |-> "aborted", idx |-> i]
\* where main goes on after an item raised: the except clause logs, and the
\* loop takes the next file
OnException(i) == [pc |-> "loop", idx |-> i + 1]

NoItem ==
    [ src |-> <<>>, uuid |-> <<>>, outcome |-> "none", metadata |-> <<>>,
      rendered |-> <<>>, dir |-> <<>>, stem |-> <<>>, conflict |-> FALSE,
      dest |-> <<>>, existed |-> FALSE, added |-> 0 ]

IdleSlug ==
    /\ raw = <<>>
    /\ max_len = 0
    /\ slug1 = <<>>
    /\ slug2 = <<>>
    /\ spc = "idle"

\* the identifier of an archive file: the part after the archive root
UuidOf(file) == file[Len(ArchiveRoot) + 1]

DefaultMasks == << <<Field(T_year), Lit(<<"/">>), Field(T_month)>>, <<Field(T_title)>> >>
EmptyTree == [fileMap |-> <<>>, dirSet |-> {}]

\* The inputs drawn: every archive, with a document for each identifier in
\* it; then either no --limit with every pair of masks and every output
\* tree, or every --limit with the default masks and an empty output tree.
Init ==
    /\ IdleSlug
    /\ archive \in Archives
    /\ docs \in DocChoices
    /\ \A u \in Uuids : (\A f \in archive : UuidOf(f) # u) => docs[u] = Absent
    /\ \E m \in MaskChoices, t \in TreeChoices, lim \in LimitChoices :
          /\ lim = <<>> \/ (m = DefaultMasks /\ t = EmptyTree)
          /\ folder_mask = m[1]
          /\ file_mask = m[2]
          /\ limit = lim
          /\ tree_files = t.fileMap
          /\ tree_dirs = t.dirSet
    /\ files = <<>>
    /\ idx = 1
    /\ pc = "start"
    /\ cur = NoItem
    /\ candidate = <<>>
    /\ counter = 1
    /\ done = <<>>
    /\ log = <<>>

\* When each step can be taken: main before its loop; a turn of the loop
\* (for path in files); ensure_unique_path's loop while the candidate exists
\* (the counter followed up to MaxCounter) and its return; the end of
\* copy_with_structure; main after its loop.
CanGather == pc = "start"
CanBeginItem == pc = "loop" /\ idx <= Len(files)
CanUniqueStep ==
    /\ pc = "unique"
    /\ Exists(candidate, DOMAIN tree_files, tree_dirs)
    /\ counter <= MaxCounter
CanUniqueReturn == pc = "unique" /\ ~Exists(candidate, DOMAIN tree_files, tree_dirs)
CanWriteItem == pc = "write"
CanDone == pc = "loop" /\ idx > Len(files)

\* main, up to its loop: gather the regular files, sort them, cut at --limit
Gather ==
    /\ CanGather
    /\ \E found \in Orders(archive) : files' = ApplyLimit(Sorted(found), limit)
    /\ idx' = 1
    /\ pc' = "loop"
    /\ UNCHANGED <<slugVars, inputVars, cur, candidate, counter, treeVars, done, log>>

\* the item is over: its record is kept, the loop goes on (or, after an
\* exception, where OnException says)
Finish(item, next, logged) ==
    /\ done' = Append(done, item)
    /\ log' = log \o logged
    /\ pc' = next.pc
    /\ idx' = next.idx
    /\ cur' = NoItem
    /\ candidate' = <<>>
    /\ counter' = 1

\* one turn of main's loop, in copy_with_structure up to the conflict test:
\* the UUID, the RDF document, parse_metadata, build_destination
BeginItem ==
    /\ CanBeginItem
    /\ LET src == files[idx]
           rel == RelativeTo(src, ArchiveRoot)
           uuid == rel.val[1]
           item == [NoItem EXCEPT !.src = src]
       IN IF ~rel.ok
          THEN /\ Finish([item EXCEPT !.outcome = "Skipped"],
                         [pc |-> "loop", idx |-> idx + 1],
                         << <<"WARNING", "no uuid", src>> >>)
               /\ UNCHANGED treeVars
          ELSE IF ~RdfIsFile(docs[uuid])
          THEN /\ Finish([item EXCEPT !.outcome = "Skipped", !.uuid = uuid],
                         [pc |-> "loop", idx |-> idx + 1],
                         << <<"WARNING", "no rdf", src>> >>)
               /\ UNCHANGED treeVars
          ELSE LET md == ParseMetadata(uuid, docs[uuid])
                   dest == BuildDestination(OutputRoot, md.val, folder_mask, file_mask, src)
               IN IF ~md.ok
                  THEN /\ Finish([item EXCEPT !.outcome = "Failed", !.uuid = uuid],
                                 OnException(idx),
                                 << <<"ERROR", "failed", src>> >>)
                       /\ UNCHANGED treeVars
                  ELSE IF ~dest.ok
                  THEN /\ Finish([item EXCEPT !.outcome = "Failed", !.uuid = uuid,
                                              !.metadata = <<md.val>>],
                                 OnException(idx),
                                 << <<"ERROR", "failed", src>> >>)
                       /\ UNCHANGED treeVars
                  ELSE /\ cur' = [item EXCEPT !.uuid = uuid,
                                              !.metadata = <<md.val>>,
                                              !.rendered = <<dest.val>>,
                                              !.dir = dest.dir,
                                              !.stem = dest.stem,
                                              !.conflict =
                                                  Exists(dest.val, DOMAIN tree_files, tree_dirs)]
                       /\ candidate' = dest.val
                       /\ counter' = 1
                       /\ IF Exists(dest.val, DOMAIN tree_files, tree_dirs)
                          THEN /\ pc' = "unique"
                               /\ log' = Append(log, <<"WARNING", "conflict", src>>)
                          ELSE /\ pc' = "write"
                               /\ log' = log
                       /\ UNCHANGED <<idx, treeVars, done>>
    /\ UNCHANGED <<slugVars, inputVars, files>>

\* the candidate ensure_unique_path tries next
NextCandidateNoCounter(cand, path, fallback, n) ==
    WithStem(cand, StemOf(Name(path)) \o <<"_">> \o fallback)
\* candidate.with_stem(f"{path.stem}_{fallback}_{counter}")
NextCandidate(cand, path, fallback, n) ==
    WithStem(cand, StemOf(Name(path)) \o <<"_">> \o fallback \o <<"_">> \o Str(n))

\* ensure_unique_path, one turn of its loop: the candidate exists
UniqueStep ==
    /\ CanUniqueStep
    /\ LET next == NextCandidate(candidate, cur.rendered[1], cur.uuid, counter)
       IN IF next.ok
          THEN /\ candidate' = next.val
               /\ counter' = counter + 1
               /\ UNCHANGED <<pc, idx, cur, done, log>>
          ELSE Finish([cur EXCEPT !.outcome = "Failed"],
                      OnException(idx),
                      << <<"ERROR", "failed", cur.src>> >>)
    /\ UNCHANGED <<slugVars, inputVars, files, treeVars>>

\* ensure_unique_path returns: nothing exists at the candidate
UniqueReturn ==
    /\ CanUniqueReturn
    /\ pc' = "write"
    /\ UNCHANGED <<slugVars, inputVars, files, idx, cur, candidate, counter,
                   treeVars, done, log>>

\* the end of copy_with_structure: make the parents, copy
WriteItem ==
    /\ CanWriteItem
    /\ LET existed == Exists(candidate, DOMAIN tree_files, tree_dirs)
           made == MkdirParents(Parent(candidate), DOMAIN tree_files, tree_dirs)
           copied == Copy2(cur.src, candidate, tree_files, made.val)
           item == [cur EXCEPT !.dest = <<candidate>>, !.existed = existed]
       IN IF ~made.ok
          THEN /\ Finish([item EXCEPT !.outcome = "Failed"], OnException(idx),
                         << <<"ERROR", "failed", cur.src>> >>)
               /\ UNCHANGED treeVars
          ELSE IF ~copied.ok
          THEN /\ Finish([item EXCEPT !.outcome = "Failed"], OnException(idx),
                         << <<"ERROR", "failed", cur.src>> >>)
               /\ tree_dirs' = made.val
               /\ tree_files' = tree_files
          ELSE /\ Finish([item EXCEPT !.outcome = "Copied",
                                      !.added = Cardinality(DOMAIN copied.val)
                                                  - Cardinality(DOMAIN tree_files)],
                         [pc |-> "loop", idx |-> idx + 1], <<>>)
               /\ tree_dirs' = made.val
               /\ tree_files' = copied.val
    /\ UNCHANGED <<slugVars, inputVars, files>>

\* main after its loop: logger.info("Done.")
Done ==
    /\ CanDone
    /\ pc' = "done"
    /\ UNCHANGED <<slugVars, inputVars, files, idx, cur, candidate, counter,
                   treeVars, done, log>>

Next == Gather \/ BeginItem \/ UniqueStep \/ UniqueReturn \/ WriteItem \/ Done

Spec == Init /\ [][Next]_vars

-----------------------------------------------------------------------------
(* ensure_unique_path on its own: any destination, any paths taken already *)

UniquePaths ==
    { OutputRoot \o << <<"T">> >>,
      OutputRoot \o << <<"T",".","t">> >>,
      OutputRoot \o << <<"T",".">> >> }

\* the path of the form <stem>_<fallback>_<n><ext> beside path
Disambiguated(path, fallback, n) ==
    Append(Parent(path),
           StemOf(Name(path)) \o <<"_">> \o fallback \o <<"_">> \o Str(n)
               \o SuffixOf(Name(path)))

\* the n-th candidate the loop of ensure_unique_path reaches
RECURSIVE CandidateAt(_, _, _)
CandidateAt(path, fallback, n) ==
    IF n = 0 THEN path
    ELSE NextCandidate(CandidateAt(path, fallback, n - 1), path, fallback, n).val

\* the paths that may be taken when ensure_unique_path(path, fallback) runs
MayBeTaken(path, fallback) ==
    {path} \cup {Disambiguated(path, fallback, n) : n \in 1..MaxTaken}
           \cup {CandidateAt(path, fallback, n) : n \in 1..MaxTaken}

UniqueInit ==
    /\ IdleSlug
    /\ archive = {}
    /\ docs = [u \in Uuids |-> Absent]
    /\ folder_mask = <<>>
    /\ file_mask = <<>>
    /\ limit = <<>>
    /\ files = <<>>
    /\ idx = 1
    /\ pc = "unique"
    /\ \E path \in UniquePaths, fallback \in Uuids :
          /\ cur = [NoItem EXCEPT !.uuid = fallback, !.rendered = <<path>>]
          /\ candidate = path
          /\ \E taken \in SUBSET MayBeTaken(path, fallback) :
                tree_files = [t \in taken |-> LeftBehind]
    /\ counter = 1
    /\ tree_dirs = {OutputRoot}
    /\ done = <<>>
    /\ log = <<>>

UniqueNext == UniqueStep \/ UniqueReturn

UniqueSpec == UniqueInit /\ [][UniqueNext]_vars

\* the loop runs on: a single thread, nothing to wait for
FairUniqueSpec == UniqueSpec /\ WF_vars(UniqueNext)

-----------------------------------------------------------------------------
(* Claims about the batch *)

Range(seq) == {seq[i] : i \in 1..Len(seq)}

\* the items main is through with, and the one in hand when it has a
\* rendered destination
Rendered == {r \in Range(done) \cup {cur} : r.rendered # <<>>}

\* a path lies below a directory
Inside(path, dir) == Len(path) > Len(dir) /\ SubSeq(path, 1, Len(dir)) = dir

\* C1: two source files of one batch with the same rendered destination are
\* both in the output tree afterwards, under distinct paths: the first at the
\* rendered path (when it was free), the later at <stem>_<identifier>_<counter><ext>
\* in the same directory; and no copy goes to a path that exists.  Stated for
\* the pairs whose copies both went through.
C1_CollidingFilesKeptApart ==
    /\ \A i \in 1..Len(done) : done[i].outcome = "Copied" => ~done[i].existed
    /\ \A i \in 1..Len(done), j \in 1..Len(done) :
          ( /\ i < j
            /\ done[i].rendered # <<>>
            /\ done[i].rendered = done[j].rendered
            /\ done[i].outcome = "Copied"
            /\ done[j].outcome = "Copied" )
          => LET path == done[i].rendered[1]
             IN /\ done[i].dest # done[j].dest
                /\ tree_files[Resolve(done[i].dest[1])] = done[i].src
                /\ tree_files[Resolve(done[j].dest[1])] = done[j].src
                /\ ~done[i].conflict => done[i].dest[1] = path
                /\ \E n \in 1..MaxCounter :
                      done[j].dest[1] = Disambiguated(path, done[j].uuid, n)

InAscendingOrder(seq) ==
    \A i \in 1..Len(seq), j \in 1..Len(seq) :
        i < j => TextLess(AsPosix(seq[i]), AsPosix(seq[j]))

\* what is left of the run: the turns of main's loop, the steps of the item
\* in hand, the candidates ensure_unique_path may still try
StepsLeft ==
    LET turn == MaxCounter + 4
    IN CASE pc = "start"  -> (Cardinality(archive) + 1) * turn
         [] pc = "loop"   -> (Len(files) + 1 - idx) * turn + 1
         [] pc = "unique" -> (Len(files) - idx) * turn + 3 + (MaxCounter + 1 - counter)
         [] pc = "write"  -> (Len(files) - idx) * turn + 2
         [] OTHER         -> 0

\* C2: main takes the selected files one at a time in ascending order of
\* path; whatever the outcome of the files before it, every selected file is
\* attempted and ends in exactly one of Copied, Skipped, Failed; and main
\* reaches Done: short of Done a step is always possible, and every step
\* brings Done nearer.
C2_EveryFileAttemptedThenDone ==
    /\ [](pc \in {"loop", "unique", "write", "done"} =>
            /\ InAscendingOrder(files)
            /\ Len(done) = idx - 1
            /\ \A i \in 1..Len(done) :
                  /\ done[i].src = files[i]
                  /\ done[i].outcome \in {"Copied", "Skipped", "Failed"}
            /\ pc = "done" => Len(done) = Len(files))
    /\ [](pc # "done" =>
            \/ CanGather \/ CanBeginItem \/ CanUniqueStep
            \/ CanUniqueReturn \/ CanWriteItem \/ CanDone)
    /\ [][StepsLeft >= 0 /\ StepsLeft' < StepsLeft]_vars

\* a file copied after one that failed
C2_Witness ==
    /\ pc = "done"
    /\ \E i \in 1..Len(done), j \in 1..Len(done) :
          i < j /\ done[i].outcome = "Failed" /\ done[j].outcome = "Copied"

\* the files of the archive whose path has fewer than n paths before it
FirstN(n) ==
    {f \in archive :
        Cardinality({g \in archive : TextLess(AsPosix(g), AsPosix(f))}) < n}

C6_NoDocumentSkips ==
    [][(pc = "loop" /\ idx <= Len(files) /\ ~docs[UuidOf(files[idx])].present) =>
          /\ tree_files' = tree_files
          /\ tree_dirs' = tree_dirs
          /\ Len(done') = Len(done) + 1
          /\ done'[Len(done')].src = files[idx]
          /\ done'[Len(done')].outcome = "Skipped"
          /\ done'[Len(done')].metadata = <<>>
          /\ log' = Append(log, <<"WARNING", "no rdf", files[idx]>>)
          /\ pc' = "loop"
          /\ idx' = idx + 1]_vars

\* an item skipped for want of its document, after one that was copied
C6_Witness ==
    \E i \in 2..Len(done) :
        /\ done[i].outcome = "Skipped"
        /\ ~docs[done[i].uuid].present
        /\ done[i - 1].outcome = "Copied"
        /\ log # <<>>
        /\ log[Len(log)][2] = "no rdf"

\* the identifier's document parses and the query has no row
NoRowsItem(r) ==
    /\ r.uuid # <<>>
    /\ docs[r.uuid].present
    /\ docs[r.uuid].parses
    /\ docs[r.uuid].rows = <<>>

\* the record C7 names
C7_FixedDefault(uuid) ==
    [ year |-> <<"1","9","7","0">>, month |-> <<"0","1">>, day |-> <<"0","1">>,
      date |-> <<"1","9","7","0","-","0","1","-","0","1">>,
      title |-> <<"U","n","t","i","t","l","e","d">>, subtitle |-> <<>>,
      type |-> <<"U","N","K","N","O","W","N">>, eli |-> <<>>,
      celex_identifier |-> <<>>, default_identifier |-> uuid ]

MaskRaises(mask) == \E i \in 1..Len(mask) : mask[i].kind = "brace"

\* a regular file is where a directory on the way to the path must be
FileInTheWay(path) ==
    \E i \in 1..(Len(path) - 1) : Resolve(SubSeq(path, 1, i)) \in DOMAIN tree_files

C8_FilenameIsOneComponent ==
    \A r \in Rendered :
        /\ r.rendered[1] = Append(r.dir, r.stem \o SuffixOf(Name(r.src)))
        /\ Parent(r.rendered[1]) = r.dir

\* C10: every file the run writes lies below the output root.
C10_WritesBelowOutputRoot ==
    /\ \A p \in DOMAIN tree_files :
          tree_files[p] # LeftBehind => Inside(p, OutputRoot)
    /\ \A i \in 1..Len(done) :
          done[i].dest # <<>> => Inside(Resolve(done[i].dest[1]), OutputRoot)

-----------------------------------------------------------------------------
(* Claims about ensure_unique_path *)

\* C9: ensure_unique_path terminates, whatever paths are taken: it returns
\* after at most one candidate per path taken; the path given when nothing
\* exists there, and else a candidate at which nothing exists.
C9_EnsureUniqueTerminates ==
    /\ <>(pc = "write")
    /\ [](pc = "write" =>
            /\ ~Exists(candidate, DOMAIN tree_files, tree_dirs)
            /\ ~Exists(cur.rendered[1], DOMAIN tree_files, tree_dirs)
                  => candidate = cur.rendered[1]
            /\ Exists(cur.rendered[1], DOMAIN tree_files, tree_dirs)
                  => candidate # cur.rendered[1] /\ Parent(candidate) = Parent(cur.rendered[1])
            /\ counter <= Cardinality(DOMAIN tree_files) + 1)

\* the path and the first two candidates were taken; the third is returned
C9_Witness ==
    /\ pc = "write"
    /\ counter = 4
    /\ candidate # cur.rendered[1]
    /\ Exists(cur.rendered[1], DOMAIN tree_files, tree_dirs)

-----------------------------------------------------------------------------
(* The slugify specification: slugify applied to a text, then to its result *)

SlugAlphabet == {"a", ".", "_", "-", " ", "e_acute", "eszett", "fw_dot"}

\* all texts over an alphabet of length up to n
RECURSIVE TextsUpTo(_, _)
TextsUpTo(alphabet, n) ==
    IF n = 0 THEN {<<>>}
    ELSE LET shorter == TextsUpTo(alphabet, n - 1)
         IN shorter \cup {Append(s, c) : s \in shorter, c \in alphabet}

\* texts long enough for the cut at max_len to act at every max_len drawn
LongTexts ==
    { <<"u","n","n","a","m","e","d","_","x">>,
      <<"a","b","c","d","e","f",".","-","h","i","j">>,
      <<" ","e_acute","t","e_acute",".","2","0","2","0","/","x","y">> }

SlugInputs == TextsUpTo(SlugAlphabet, MaxLen) \cup LongTexts

IdleBatch ==
    /\ archive = {}
    /\ docs = [u \in Uuids |-> Absent]
    /\ folder_mask = <<>>
    /\ file_mask = <<>>
    /\ limit = <<>>
    /\ files = <<>>
    /\ idx = 1
    /\ pc = "idle"
    /\ cur = NoItem
    /\ candidate = <<>>
    /\ counter = 1
    /\ tree_files = <<>>
    /\ tree_dirs = {}
    /\ done = <<>>
    /\ log = <<>>

SlugInit ==
    /\ IdleBatch
    /\ raw \in SlugInputs
    /\ max_len \in 0..MaxM
    /\ slug1 = <<>>
    /\ slug2 = <<>>
    /\ spc = "start"

SlugifyOnce ==
    /\ spc = "start"
    /\ slug1' = Slugify(raw, max_len)
    /\ spc' = "once"
    /\ UNCHANGED <<raw, max_len, slug2, batchVars>>

SlugifyAgain ==
    /\ spc = "once"
    /\ slug2' = Slugify(slug1, max_len)
    /\ spc' = "twice"
    /\ UNCHANGED <<raw, max_len, slug1, batchVars>>

SlugNext == SlugifyOnce \/ SlugifyAgain

SlugSpec == SlugInit /\ [][SlugNext]_vars

\* a character of [A-Za-z0-9] survives the ASCII folding of the text
HasAlnum(text) ==
    \E i \in 1..Len(AsciiIgnore(Nfkd(text))) :
        AsciiIgnore(Nfkd(text))[i] \in Letters \cup Digits

\* C4 as stated: slugify is idempotent for every input and every max length:
\* slugify(slugify(x, m), m) = slugify(x, m).
C4_IdempotentEveryLength == spc = "twice" => slug2 = slug1

\* C4, amended: slugify(slugify(x, m), m) = slugify(x, m) for every input x
\* when m = 0 or m >= len("unnamed") = 7, and for every m >= 0 when
\* slugify(x, m) is not the fallback "unnamed".
C4_IdempotentFromFallbackLength ==
    (spc = "twice" /\ (max_len = 0 \/ max_len >= Len(Unnamed) \/ slug1 # Unnamed))
        => slug2 = slug1

\* a text cut at max_len >= 7 and slugified twice
C4_Witness ==
    /\ spc = "twice"
    /\ max_len >= Len(Unnamed)
    /\ Len(raw) > max_len
    /\ Len(slug1) = max_len
    /\ slug2 = slug1

\* C5: the result of slugify has only characters of [A-Za-z0-9._-], neither
\* begins nor ends with ".", "_" or "-", and is exactly "unnamed" whenever the
\* input is empty or sanitizes to the empty text.
C5_SlugShape ==
    spc \in {"once", "twice"} =>
        /\ \A i \in 1..Len(slug1) : slug1[i] \in SafeChars
        /\ slug1 # <<>>
        /\ slug1[1] \notin Punct
        /\ slug1[Len(slug1)] \notin Punct
        /\ (raw = <<>> \/ ~HasAlnum(raw) \/ max_len = 0) => slug1 = Unnamed

\* a text with punctuation, a non-ASCII and an unsafe character, slugified
C5_Witness ==
    /\ spc = "once"
    /\ raw = <<".", "e_acute", " ">>
    /\ max_len = 2
    /\ slug1 = <<"e">>

====
